---- MODULE Spec2Model ----
(***************************************************************************)
(* A model of src/src/PipelineExplorer.ts: the Owner -> Repo -> Build ->   *)
(* Stage tree of PipelineModel, its upsertPipeline / deletePipeline        *)
(* operations, the derivation of a Build's Stage list from its raw         *)
(* pipeline object, the sorted child views, the watch callback, the tree    *)
(* items of the data provider and the TerminalCache.                       *)
(*                                                                         *)
(* JavaScript strings that the code takes apart or builds (names, URLs,    *)
(* build numbers, paths) are sequences of one-character strings, so that   *)
(* split, lastIndexOf, substring, toUpperCase and + are computed and not   *)
(* assumed.  The empty sequence stands for both "" and an absent string:   *)
(* the code only ever tests these fields for truthiness.  Opaque tags      *)
(* (context values, status words, event types) are TLA+ strings.  An       *)
(* optional sub-record is a sequence of length 0 (absent) or 1 (present).  *)
(***************************************************************************)
EXTENDS Integers, Sequences, FiniteSets, TLC

VARIABLES nodes, last, latest, view, effects, terminals, window, shown

\* The TerminalCache's map, the terminals of the host window and the last
\* operation on them
terminalVars == <<terminals, window, shown>>

vars == <<nodes, last, latest, view, effects, terminalVars>>

-----------------------------------------------------------------------------
(* Optional values and strings *)

Absent == <<>>

Some(x) == <<x>>

IsPresent(o) == o # <<>>

Val(o) == o[1]

Lower == <<"a","b","c","d","e","f","g","h","i","j","k","l","m",
           "n","o","p","q","r","s","t","u","v","w","x","y","z">>

Upper == <<"A","B","C","D","E","F","G","H","I","J","K","L","M",
           "N","O","P","Q","R","S","T","U","V","W","X","Y","Z">>

Digits == <<"0","1","2","3","4","5","6","7","8","9">>

\* String.prototype.toUpperCase on one character
toUpperCase(c) ==
    IF \E i \in 1..Len(Lower) : Lower[i] = c
    THEN Upper[CHOOSE i \in 1..Len(Lower) : Lower[i] = c]
    ELSE c

\* text.substring(from) with a 0-based index
substring(text, from) == SubSeq(text, from + 1, Len(text))

\* text.lastIndexOf(c): the 0-based index of the last occurrence, or -1
lastIndexOf(text, c) ==
    IF \E i \in 1..Len(text) : text[i] = c
    THEN (CHOOSE i \in 1..Len(text) :
              text[i] = c /\ \A j \in (i+1)..Len(text) : text[j] # c) - 1
    ELSE -1

\* text.split(sep): the pieces between the separators (one piece for no separator)
RECURSIVE split(_, _)
split(text, sep) ==
    IF \E i \in 1..Len(text) : text[i] = sep
    THEN LET i == CHOOSE k \in 1..Len(text) :
                      text[k] = sep /\ \A j \in 1..(k-1) : text[j] # sep
         IN  <<SubSeq(text, 1, i - 1)>> \o split(SubSeq(text, i + 1, Len(text)), sep)
    ELSE <<text>>

stringCapitalise(text) ==
    IF text # <<>>
    THEN <<toUpperCase(text[1])>> \o substring(text, 1)
    ELSE <<>>

\* Unary plus on a string: Some(n) for a number, Absent for NaN.  The empty
\* string converts to 0, a string of decimal digits to its value, and every
\* other string of the characters used here to NaN.
DigitVal(c) == (CHOOSE i \in 1..Len(Digits) : Digits[i] = c) - 1

IsDigit(c) == \E i \in 1..Len(Digits) : Digits[i] = c

RECURSIVE DecimalValue(_)
DecimalValue(s) ==
    IF s = <<>> THEN 0
    ELSE 10 * DecimalValue(SubSeq(s, 1, Len(s) - 1)) + DigitVal(s[Len(s)])

ToNumber(s) ==
    IF \A i \in 1..Len(s) : IsDigit(s[i]) THEN Some(DecimalValue(s)) ELSE Absent

-----------------------------------------------------------------------------
(* String literals of the source *)

Slash == "/"

PromoteTo == <<"P","r","o","m","o","t","e"," ","t","o"," ">>

PullRequestSuffix == <<" ","P","u","l","l"," ","R","e","q","u","e","s","t">>

HashPrefix == <<" ","#">>

UpdateSuffix == <<" ","U","p","d","a","t","e">>

AppPromotedTo == <<"A","p","p"," ","p","r","o","m","o","t","e","d"," ","t","o"," ">>

StageContext == "vsJenkinsX.pipelines.stage"

AppContext == "vsJenkinsX.pipelines.stage.app"

PullRequestContext == "vsJenkinsX.pipelines.stage.pullRequest"

UpdateContext == "vsJenkinsX.pipelines.stage.update"

\* Uri.parse("pipeline:localhost").path
RootResource == <<"l","o","c","a","l","h","o","s","t">>

addChildUrl(uri, path) == uri \o <<Slash>> \o path

-----------------------------------------------------------------------------
(* Raw pipeline-activity objects (the inbound shape) *)

\* {} : an object with every field absent (pipeline.spec || {})
EmptySpec ==
    [build |-> <<>>, gitOwner |-> <<>>, gitRepository |-> <<>>, pipeline |-> <<>>,
     status |-> "", steps |-> Absent]

StageStep(name, status) ==
    Some([stage |-> Some([name |-> name, status |-> status]), promote |-> Absent])

PromoteStep(promote) == Some([stage |-> Absent, promote |-> Some(promote)])

Promote(environment, applicationURL, pullRequest, update) ==
    [environment |-> environment, applicationURL |-> applicationURL,
     status |-> "Succeeded", pullRequest |-> pullRequest, update |-> update]

PullRequest(url, status) == Some([pullRequestURL |-> url, status |-> status])

Update(statuses) == Some([statuses |-> statuses, status |-> "Running"])

StatusEntry(url) == Some([url |-> url])

-----------------------------------------------------------------------------
(* StageNode and the BuildNode.pipeline setter *)

\* new StageNode(resource, build, name, pipeline, step, contextValue, url);
\* the back references to the build and to its raw object are the enclosing
\* Build of the tree and are not repeated in the node.
StageNode(resource, name, step, contextValue, url) ==
    [resource |-> resource, name |-> name, step |-> step,
     contextValue |-> contextValue, url |-> url]

\* A scan without the break: the url of the last entry wins
RECURSIVE ScanStatusesNoBreak(_, _, _)
ScanStatusesNoBreak(statuses, j, updateUrl) ==
    IF j > Len(statuses) THEN [url |-> updateUrl, threw |-> FALSE]
    ELSE IF ~IsPresent(statuses[j]) THEN [url |-> updateUrl, threw |-> TRUE]
    ELSE ScanStatusesNoBreak(statuses, j + 1, Val(statuses[j]).url)

\* for (const status of statuses) { updateUrl = status.url; if (updateUrl) break; }
\* An absent entry makes status.url throw.
RECURSIVE ScanStatuses(_, _, _)
ScanStatuses(statuses, j, updateUrl) ==
    IF j > Len(statuses) THEN [url |-> updateUrl, threw |-> FALSE]
    ELSE IF ~IsPresent(statuses[j]) THEN [url |-> updateUrl, threw |-> TRUE]
    ELSE LET u == Val(statuses[j]).url
         IN  IF u # <<>> THEN [url |-> u, threw |-> FALSE]
             ELSE ScanStatuses(statuses, j + 1, u)

\* The pullRequest branch: the node's name and URL
PullRequestNode(resource, name, pullRequest) ==
    LET prUrl == pullRequest.pullRequestURL
        idx == lastIndexOf(prUrl, Slash)
        pullRequestName ==
            IF prUrl # <<>> /\ idx > 0
            THEN name \o PullRequestSuffix \o HashPrefix \o substring(prUrl, idx + 1)
            ELSE name \o PullRequestSuffix
    IN  StageNode(addChildUrl(resource, name), pullRequestName, Some(pullRequest),
                  PullRequestContext, prUrl)

\* An update branch whose node carries the update record as its step payload
UpdateNodeOwnPayload(resource, name, promote, scan) ==
    IF scan.threw THEN [children |-> <<>>, threw |-> TRUE]
    ELSE [children |-> <<StageNode(addChildUrl(resource, name), name \o UpdateSuffix,
                                   promote.update, UpdateContext, scan.url)>>,
          threw |-> FALSE]

\* The update branch: iterating an absent statuses list throws before the
\* node is pushed; the node's step payload is the pullRequest record.
UpdateNode(resource, name, promote, scan) ==
    IF scan.threw THEN [children |-> <<>>, threw |-> TRUE]
    ELSE [children |-> <<StageNode(addChildUrl(resource, name), name \o UpdateSuffix,
                                   promote.pullRequest, UpdateContext, scan.url)>>,
          threw |-> FALSE]

UpdateNodes(resource, name, promote) ==
    UpdateNode(resource, name, promote,
               IF IsPresent(Val(promote.update).statuses)
               THEN ScanStatuses(Val(Val(promote.update).statuses), 1, <<>>)
               ELSE [url |-> <<>>, threw |-> TRUE])

\* The promote branch of one step: the nodes pushed, in push order, up to a throw
\* The nodes of one promote record in push order: the promote node, the pull
\* request node, the update node (upd, which may have thrown), the app node
PushPromote(first, pr, upd, app) ==
    IF upd.threw THEN [children |-> first \o pr, threw |-> TRUE]
    ELSE [children |-> first \o pr \o upd.children \o app, threw |-> FALSE]

PromoteNamed(resource, promote, envName, name, appUrl) ==
    PushPromote(
        <<StageNode(addChildUrl(resource, name), name, Some(promote),
                    IF appUrl # <<>> THEN AppContext ELSE StageContext, appUrl)>>,
        IF IsPresent(promote.pullRequest)
        THEN <<PullRequestNode(resource, name, Val(promote.pullRequest))>>
        ELSE <<>>,
        IF IsPresent(promote.update)
        THEN UpdateNodes(resource, name, promote)
        ELSE [children |-> <<>>, threw |-> FALSE],
        IF appUrl # <<>>
        THEN <<StageNode(addChildUrl(resource, name), AppPromotedTo \o envName,
                         Some(promote), AppContext, appUrl)>>
        ELSE <<>>)

PromoteEnv(resource, promote, envName) ==
    PromoteNamed(resource, promote, envName, PromoteTo \o envName, promote.applicationURL)

PromoteNodes(resource, promote) ==
    PromoteEnv(resource, promote, stringCapitalise(promote.environment))

\* The body of the loop over steps for one step
PushStep(st, pn) == [children |-> st \o pn.children, threw |-> pn.threw]

StepOf(resource, stage, promote) ==
    PushStep(IF IsPresent(stage)
             THEN <<StageNode(addChildUrl(resource, Val(stage).name),
                              Val(stage).name, stage, StageContext, <<>>)>>
             ELSE <<>>,
             IF IsPresent(promote)
             THEN PromoteNodes(resource, Val(promote))
             ELSE [children |-> <<>>, threw |-> FALSE])

StepNodes(resource, step) ==
    IF ~IsPresent(step) THEN [children |-> <<>>, threw |-> FALSE]
    ELSE StepOf(resource, Val(step).stage, Val(step).promote)

\* for (const step of steps): pushes onto children until a step throws
RECURSIVE StepsLoop(_, _, _, _)
StepsNext(resource, steps, i, children, r) ==
    IF r.threw THEN [children |-> children \o r.children, threw |-> TRUE]
    ELSE StepsLoop(resource, steps, i + 1, children \o r.children)

StepsLoop(resource, steps, i, children) ==
    IF i > Len(steps) THEN [children |-> children, threw |-> FALSE]
    ELSE StepsNext(resource, steps, i, children, StepNodes(resource, steps[i]))

\* get pipelineSpec of a raw object
pipelineSpec(pipeline) ==
    IF IsPresent(pipeline) /\ IsPresent(Val(pipeline).spec)
    THEN Val(Val(pipeline).spec)
    ELSE EmptySpec

\* A setter that forgets to empty the children before deriving them
ResetChildrenKeeps(children) == children

\* this._children = [] at the start of the setter
ResetChildren(children) == <<>>

\* set pipeline(that): stores the object, empties the children and derives
\* them again; [node, threw] is the Build as the setter leaves it.
Stored(build, that, r) ==
    [node |-> [build EXCEPT !.pipeline = that, !.children = r.children],
     threw |-> r.threw]

DeriveChildren(build, steps) ==
    IF IsPresent(steps)
    THEN StepsLoop(build.resource, Val(steps), 1, ResetChildren(build.children))
    ELSE [children |-> ResetChildren(build.children), threw |-> FALSE]

SetPipeline(build, that) ==
    Stored(build, that, DeriveChildren(build, pipelineSpec(that).steps))

-----------------------------------------------------------------------------
(* The tree: Map<string, node> is a sequence of nodes in insertion order *)

BuildNode(resource, buildNumber) ==
    [resource |-> resource, buildNumber |-> buildNumber,
     pipeline |-> Absent, children |-> <<>>]

RepoNode(resource, repoName) ==
    [resource |-> resource, repoName |-> repoName, nodes |-> <<>>]

OwnerNode(resource, folder) ==
    [resource |-> resource, folder |-> folder, nodes |-> <<>>]

\* A lookup that never finds the key
KeyIndexMisses(keys, k) == 0

\* Map.get: the position of key k in the sequence of keys, 0 when absent
KeyIndex(keys, k) ==
    IF \E i \in 1..Len(keys) : keys[i] = k
    THEN CHOOSE i \in 1..Len(keys) : keys[i] = k
    ELSE 0

\* A delete that also drops the entries inserted after position i
RemoveAtAndAfter(seq, i) == SubSeq(seq, 1, i - 1)

\* Map.delete: the sequence without position i
RemoveAt(seq, i) == SubSeq(seq, 1, i - 1) \o SubSeq(seq, i + 1, Len(seq))

BuildKeys(repo) == [i \in 1..Len(repo.nodes) |-> repo.nodes[i].buildNumber]

RepoKeys(owner) == [i \in 1..Len(owner.nodes) |-> owner.nodes[i].repoName]

OwnerKeys(model) == [i \in 1..Len(model) |-> model[i].folder]

isEmpty(node) == Len(node.nodes) = 0

\* The map with the child at position j replaced by the child an operation left
PutChild(node, children, j, r) ==
    [node |-> [node EXCEPT !.nodes = [children EXCEPT ![j] = r.node]],
     threw |-> r.threw]

\* RepoNode.upsertPipeline
RepoNode_upsertPipeline(repo, buildNumber, pipeline) ==
    IF buildNumber # <<>>
    THEN LET i == KeyIndex(BuildKeys(repo), buildNumber)
             builds == IF i = 0
                       THEN Append(repo.nodes,
                                   BuildNode(addChildUrl(repo.resource, buildNumber),
                                             buildNumber))
                       ELSE repo.nodes
             j == IF i = 0 THEN Len(builds) ELSE i
         IN  PutChild(repo, builds, j, SetPipeline(builds[j], pipeline))
    ELSE [node |-> repo, threw |-> FALSE]

\* A delete that leaves the Build in the map
RepoNode_deletePipelineKeeps(repo, buildNumber) == repo

\* RepoNode.deletePipeline
RepoNode_deletePipeline(repo, buildNumber) ==
    IF buildNumber # <<>> /\ KeyIndex(BuildKeys(repo), buildNumber) # 0
    THEN [repo EXCEPT !.nodes = RemoveAt(@, KeyIndex(BuildKeys(repo), buildNumber))]
    ELSE repo

\* OwnerNode.upsertPipeline
OwnerNode_upsertPipeline(owner, repoName, buildNumber, pipeline) ==
    IF repoName # <<>>
    THEN LET i == KeyIndex(RepoKeys(owner), repoName)
             repos == IF i = 0
                      THEN Append(owner.nodes,
                                  RepoNode(addChildUrl(owner.resource, repoName), repoName))
                      ELSE owner.nodes
             j == IF i = 0 THEN Len(repos) ELSE i
         IN  PutChild(owner, repos, j,
                      RepoNode_upsertPipeline(repos[j], buildNumber, pipeline))
    ELSE [node |-> owner, threw |-> FALSE]

\* A delete that also removes the Repo it has emptied
OwnerNode_deletePipelinePrunes(owner, repoName, buildNumber) ==
    LET i == KeyIndex(RepoKeys(owner), repoName)
    IN  IF repoName # <<>> /\ i # 0
        THEN IF isEmpty(RepoNode_deletePipeline(owner.nodes[i], buildNumber))
             THEN [owner EXCEPT !.nodes = RemoveAt(@, i)]
             ELSE [owner EXCEPT !.nodes[i] = RepoNode_deletePipeline(@, buildNumber)]
        ELSE owner

\* OwnerNode.deletePipeline
OwnerNode_deletePipeline(owner, repoName, buildNumber) ==
    LET i == KeyIndex(RepoKeys(owner), repoName)
    IN  IF repoName # <<>> /\ i # 0
        THEN [owner EXCEPT !.nodes[i] = RepoNode_deletePipeline(@, buildNumber)]
        ELSE owner

PutOwner(owners, j, r) == [nodes |-> [owners EXCEPT ![j] = r.node], threw |-> r.threw]

\* PipelineModel.upsertPipeline on the owner map: [nodes, threw]
upsertPipeline(model, folder, repoName, buildNumber, pipeline) ==
    IF folder # <<>>
    THEN LET i == KeyIndex(OwnerKeys(model), folder)
             owners == IF i = 0
                       THEN Append(model, OwnerNode(addChildUrl(RootResource, folder), folder))
                       ELSE model
             j == IF i = 0 THEN Len(owners) ELSE i
         IN  PutOwner(owners, j,
                      OwnerNode_upsertPipeline(owners[j], repoName, buildNumber, pipeline))
    ELSE [nodes |-> model, threw |-> FALSE]

\* if (owner.isEmpty()) this.nodes.delete(folder)
PruneOwner(model, i, owner) ==
    IF isEmpty(owner) THEN RemoveAt(model, i) ELSE [model EXCEPT ![i] = owner]

\* PipelineModel.deletePipeline on the owner map
deletePipeline(model, folder, repoName, buildNumber) ==
    LET i == KeyIndex(OwnerKeys(model), folder)
    IN  IF folder # <<>> /\ i # 0
        THEN PruneOwner(model, i, OwnerNode_deletePipeline(model[i], repoName, buildNumber))
        ELSE model

-----------------------------------------------------------------------------
(* Sorted child views *)

\* The comparator of RepoNode.getChildren: Some(n), or Absent for NaN
CompareBuilds(n1, n2) ==
    IF n1.buildNumber # <<>> /\ n2.buildNumber = <<>> THEN Some(1)
    ELSE IF n1.buildNumber = <<>> /\ n2.buildNumber # <<>> THEN Some(-1)
    ELSE LET a == ToNumber(n2.buildNumber)
             b == ToNumber(n1.buildNumber)
         IN  IF IsPresent(a) /\ IsPresent(b) THEN Some(Val(a) - Val(b)) ELSE Absent

\* order > 0 is false for NaN
Positive(order) == IsPresent(order) /\ Val(order) > 0

\* Array.prototype.sort(comparefn) as the engine of the extension host runs
\* it on a short array (V8's insertion sort, used for up to 10 elements):
\*   for i: element = a[i]; for j = i-1 down: if comparefn(a[j], element) > 0
\*   then shift a[j] up, else break; a[j+1] = element
\* With a consistent comparator every engine returns this same order.
RECURSIVE InsertPosition(_, _, _)
InsertPosition(sorted, element, j) ==
    IF j >= 1 /\ Positive(CompareBuilds(sorted[j], element))
    THEN InsertPosition(sorted, element, j - 1)
    ELSE j

RECURSIVE ArraySort(_, _, _)
ArraySort(a, i, sorted) ==
    IF i > Len(a) THEN sorted
    ELSE LET j == InsertPosition(sorted, a[i], Len(sorted))
         IN  ArraySort(a, i + 1,
                       SubSeq(sorted, 1, j) \o <<a[i]>> \o SubSeq(sorted, j + 1, Len(sorted)))

\* RepoNode.getChildren
RepoNode_getChildren(repo) == ArraySort(repo.nodes, 1, <<>>)

\* The characters of the keys in the order of their UTF-16 code units
CodeUnits == <<" ", "#", "/">> \o Digits \o <<":">> \o Upper \o Lower

CodeUnit(c) == CHOOSE i \in 1..Len(CodeUnits) : CodeUnits[i] = c

\* x < y on strings: by code unit at the first difference, a proper prefix first
RECURSIVE StringLess(_, _)
StringLess(x, y) ==
    IF y = <<>> THEN FALSE
    ELSE IF x = <<>> THEN TRUE
    ELSE IF x[1] = y[1] THEN StringLess(Tail(x), Tail(y))
    ELSE CodeUnit(x[1]) < CodeUnit(y[1])

\* keys.sort() without a comparator: the default comparison of strings, run
\* by the same insertion sort as above
RECURSIVE KeyPosition(_, _, _)
KeyPosition(sorted, key, j) ==
    IF j >= 1 /\ StringLess(key, sorted[j])
    THEN KeyPosition(sorted, key, j - 1)
    ELSE j

RECURSIVE KeysSort(_, _, _)
KeysSort(keys, i, sorted) ==
    IF i > Len(keys) THEN sorted
    ELSE KeysSort(keys, i + 1,
                  SubSeq(sorted, 1, KeyPosition(sorted, keys[i], Len(sorted)))
                      \o <<keys[i]>>
                      \o SubSeq(sorted, KeyPosition(sorted, keys[i], Len(sorted)) + 1,
                                Len(sorted)))

\* A view that returns the values in the order of the map
mapValuesInInsertionOrder(children, keys, sorted) == children

\* mapValuesInKeyOrder(nodes): the values of a map (children, with their keys
\* in insertion order) in the order of the sorted keys; sorted is keys.sort()
mapValuesInKeyOrder(children, keys, sorted) ==
    [n \in 1..Len(sorted) |-> children[KeyIndex(keys, sorted[n])]]

\* OwnerNode.getChildren
OwnerNode_getChildren(owner) ==
    mapValuesInKeyOrder(owner.nodes, RepoKeys(owner), KeysSort(RepoKeys(owner), 1, <<>>))

\* PipelineModel.getChildren
PipelineModel_getChildren(model) ==
    mapValuesInKeyOrder(model, OwnerKeys(model), KeysSort(OwnerKeys(model), 1, <<>>))

\* BuildNode.getChildren: a copy of the Stage list
BuildNode_getChildren(build) == build.children

\* PipelineModel.getNodeChildren(element?) for no element or an Owner
getNodeChildren(model, element) ==
    IF IsPresent(element)
    THEN OwnerNode_getChildren(Val(element))
    ELSE PipelineModel_getChildren(model)

-----------------------------------------------------------------------------
(* Status, icon, tooltip and the tree item of Build and Stage nodes *)

\* A field of an object that may lack it: x.f of a JavaScript object, empty
\* when the object has no such field
Field(object, f) == IF f \in DOMAIN object THEN object[f] ELSE <<>>

\* step.status || "Unknown"
OrUnknown(status) == IF status # "" THEN status ELSE "Unknown"

\* get status of StageNode: let step = this.step || {}
StageNode_status(stage) ==
    IF IsPresent(stage.step) THEN OrUnknown(Val(stage.step).status) ELSE "Unknown"

\* get iconPath of StageNode
StageNode_iconPath(status) ==
    CASE status = "Succeeded" -> "images/atomist_build_passed.png"
      [] status = "Failed" -> "images/atomist_build_failed.png"
      [] status = "Error" -> "images/atomist_build_failed.png"
      [] status = "Running" -> "images/spinner.gif"
      [] status = "Aborted" -> "images/circle-64.png"
      [] status = "NotExecuted" -> ""
      [] OTHER -> ""

\* elapsedTime(prefix, start, completed): empty unless both timestamps are
\* there; the humanized difference is moment's and is kept as the two
\* timestamps it is computed from
elapsedTime(start, completed) ==
    IF start # <<>> /\ completed # <<>> THEN Some(<<start, completed>>) ELSE Absent

\* The parts a tooltip is concatenated from
Tooltip(text, status, step) ==
    [text |-> text, status |-> status,
     duration |-> elapsedTime(Field(step, "startedTimestamp"),
                              Field(step, "completedTimestamp"))]

\* get tooltip of StageNode: this.name + ": " + this.status + elapsedTime(...)
StageNode_tooltip(stage) ==
    Tooltip(stage.name \o <<":", " ">>, StageNode_status(stage),
            IF IsPresent(stage.step) THEN Val(stage.step) ELSE EmptySpec)

\* get status of BuildNode
BuildNode_status(build) ==
    IF IsPresent(build.pipeline) /\ IsPresent(Val(build.pipeline).spec)
    THEN OrUnknown(Val(Val(build.pipeline).spec).status)
    ELSE "Unknown"

\* A switch without the case "Error"
BuildNode_iconPathNoError(status) ==
    CASE status = "Succeeded" -> "images/atomist_build_passed.png"
      [] status = "Failed" -> "images/atomist_build_failed.png"
      [] status = "Running" -> "images/spinner.gif"
      [] status = "Aborted" -> "images/circle-64.png"
      [] OTHER -> ""

\* get iconPath of BuildNode
BuildNode_iconPath(status) ==
    CASE status = "Succeeded" -> "images/atomist_build_passed.png"
      [] status = "Failed" -> "images/atomist_build_failed.png"
      [] status = "Error" -> "images/atomist_build_failed.png"
      [] status = "Running" -> "images/spinner.gif"
      [] status = "Aborted" -> "images/circle-64.png"
      [] OTHER -> ""

\* get tooltip of BuildNode: "#" + this.buildNumber + ": " + this.status + ...
BuildNode_tooltip(build) ==
    Tooltip(<<"#">> \o build.buildNumber \o <<":", " ">>, BuildNode_status(build),
            pipelineSpec(build.pipeline))

\* get contextValue of BuildNode
BuildNode_contextValue(build) ==
    <<IF /\ Field(pipelineSpec(build.pipeline), "buildLogsUrl") # <<>>
         /\ Field(pipelineSpec(build.pipeline), "buildUrl") # <<>>
         /\ Field(pipelineSpec(build.pipeline), "gitUrl") # <<>>
      THEN "vsJenkinsX.pipelines.build.hasUrls"
      ELSE "vsJenkinsX.pipelines.build",
      IF BuildNode_status(build) = "Running" THEN ".Running" ELSE "">>

\* PipelineTreeDataProvider.getTreeItem: the icon is set only when the
\* node's iconPath is not empty; neither node has a command
TreeItem(label, resource, contextValue, tooltip, iconPath) ==
    [label |-> label, resourceUri |-> resource, contextValue |-> contextValue,
     tooltip |-> tooltip,
     iconPath |-> IF iconPath # "" THEN Some(iconPath) ELSE Absent]

getTreeItem_Stage(stage) ==
    TreeItem(stage.name, stage.resource, stage.contextValue, StageNode_tooltip(stage),
             StageNode_iconPath(StageNode_status(stage)))

getTreeItem_Build(build) ==
    TreeItem(build.buildNumber, build.resource, BuildNode_contextValue(build),
             BuildNode_tooltip(build), BuildNode_iconPath(BuildNode_status(build)))

-----------------------------------------------------------------------------
(* nodeForUri *)

\* A vscode.Uri is an object: [path, object], where object tells which object
\* it is.  The resource a node holds was made by addChildUrl when the node
\* was constructed and is held by that node alone, so it is told by the place
\* of the node: the keys down to it and, for a Stage, its position in the
\* Build's list.  A Uri that comes from the host (the uri of the document of
\* the active editor) is an object of its own.
Ref(folder, repoName, buildNumber, stage) ==
    [folder |-> folder, repoName |-> repoName, buildNumber |-> buildNumber,
     stage |-> stage]

RootRef == Ref(<<>>, <<>>, <<>>, 0)

HostRef == Ref(<<>>, <<>>, <<>>, -1)

Uri(path, object) == [path |-> path, object |-> object]

\* node.resource === uri
SameObject(uri, resource) == uri.object = resource.object

\* The node nodeForUri returns, told by its place and its resource
Found(ref, resource) == [node |-> ref, resource |-> resource]

\* if (node.resource === uri) return node
Matches(uri, ref, resource) ==
    IF SameObject(uri, Uri(resource, ref)) THEN Some(Found(ref, resource)) ELSE Absent

\* for (let child of node.getChildren()) { answer = nodeForUri(uri, child);
\*   if (answer) return answer; } return null
FirstAnswer(answers) ==
    IF \E n \in 1..Len(answers) : IsPresent(answers[n])
    THEN answers[CHOOSE n \in 1..Len(answers) :
                     /\ IsPresent(answers[n])
                     /\ \A m \in 1..(n - 1) : ~IsPresent(answers[m])]
    ELSE Absent

\* The node itself when it matches, else the first answer of its children
NodeOrChild(own, answers) == IF IsPresent(own) THEN own ELSE FirstAnswer(answers)

\* nodeForUri on a Stage: StageNode.getChildren is empty
nodeForUri_Stage(uri, stage, ref) == Matches(uri, ref, stage.resource)

nodeForUri_Build(uri, build, ref) ==
    NodeOrChild(Matches(uri, ref, build.resource),
                [n \in 1..Len(BuildNode_getChildren(build)) |->
                    nodeForUri_Stage(uri, BuildNode_getChildren(build)[n],
                                     [ref EXCEPT !.stage = n])])

nodeForUri_Builds(uri, builds, ref) ==
    [n \in 1..Len(builds) |->
        nodeForUri_Build(uri, builds[n], [ref EXCEPT !.buildNumber = builds[n].buildNumber])]

nodeForUri_Repo(uri, repo, ref) ==
    NodeOrChild(Matches(uri, ref, repo.resource),
                nodeForUri_Builds(uri, RepoNode_getChildren(repo), ref))

nodeForUri_Repos(uri, repos, ref) ==
    [n \in 1..Len(repos) |->
        nodeForUri_Repo(uri, repos[n], [ref EXCEPT !.repoName = repos[n].repoName])]

nodeForUri_Owner(uri, owner, ref) ==
    NodeOrChild(Matches(uri, ref, owner.resource),
                nodeForUri_Repos(uri, OwnerNode_getChildren(owner), ref))

nodeForUri_Owners(uri, owners) ==
    [n \in 1..Len(owners) |->
        nodeForUri_Owner(uri, owners[n], Ref(owners[n].folder, <<>>, <<>>, 0))]

\* nodeForUri(uri, this.pipelineModel)
nodeForUri(uri, model) ==
    NodeOrChild(Matches(uri, RootRef, RootResource),
                nodeForUri_Owners(uri, PipelineModel_getChildren(model)))

-----------------------------------------------------------------------------
(* The watch callback of PipelineModel.connect *)

\* A callback without the check of the build number
WatchKeyNoBuildCheck(obj) ==
    IF obj.metadata.name = <<>> \/ ~IsPresent(obj.spec) THEN Absent
    ELSE IF Val(obj.spec).gitOwner = <<>> \/ Val(obj.spec).gitRepository = <<>>
    THEN Absent
    ELSE Some([folder |-> Val(obj.spec).gitOwner,
               repoName |-> Val(obj.spec).gitRepository,
               buildNumber |-> Val(obj.spec).build])

\* Lines 509-536: the key the callback derives, or Absent when it returns early
WatchKey(obj) ==
    IF obj.metadata.name = <<>> \/ ~IsPresent(obj.spec) THEN Absent
    ELSE LET spec == Val(obj.spec)
             buildNumber == spec.build
             values == split(spec.pipeline, Slash)
             fromName == /\ (spec.gitOwner = <<>> \/ spec.gitRepository = <<>>)
                         /\ spec.pipeline # <<>>
                         /\ Len(values) > 2
             folder == IF fromName THEN values[1] ELSE spec.gitOwner
             repoName == IF fromName THEN values[2] ELSE spec.gitRepository
         IN  IF buildNumber = <<>> THEN Absent
             ELSE IF folder = <<>> \/ repoName = <<>> THEN Absent
             ELSE Some([folder |-> folder, repoName |-> repoName,
                        buildNumber |-> buildNumber])

NoKey == [folder |-> <<>>, repoName |-> <<>>, buildNumber |-> <<>>]

\* The whole callback: the tree it leaves, whether an exception left it, the
\* change notifications it fired and the model operations it called.
\* fireChangeEvent follows the mutation and is skipped when the mutation throws.
Upserted(r, key) ==
    [nodes |-> r.nodes, threw |-> r.threw, fired |-> IF r.threw THEN 0 ELSE 1,
     calls |-> <<"upsertPipeline">>, key |-> key]

\* Lines 538-544: the dispatch on the event type for a derived key k
Dispatch(model, type, obj, k) ==
    IF ~IsPresent(k)
    THEN [nodes |-> model, threw |-> FALSE, fired |-> 0, calls |-> <<>>, key |-> NoKey]
    ELSE IF type = "ADDED" \/ type = "MODIFIED"
    THEN Upserted(upsertPipeline(model, Val(k).folder, Val(k).repoName,
                                 Val(k).buildNumber, Some(obj)),
                  Val(k))
    ELSE IF type = "DELETED"
    THEN [nodes |-> deletePipeline(model, Val(k).folder, Val(k).repoName,
                                   Val(k).buildNumber),
          threw |-> FALSE, fired |-> 1, calls |-> <<"deletePipeline">>,
          key |-> Val(k)]
    ELSE [nodes |-> model, threw |-> FALSE, fired |-> 0, calls |-> <<>>,
          key |-> Val(k)]

WatchCallback(model, type, obj) == Dispatch(model, type, obj, WatchKey(obj))

-----------------------------------------------------------------------------
(* Inputs *)

\* Distinct build numbers of the tree-synchronisation specifications
MainBuilds == 2

\* Distinct build numbers of the sort specification
SortBuilds == 4

A == <<"a">>

R == <<"r">>

OwnerB == <<"b">>

RepoS == <<"s">>

BuildPool == << <<"3">>, <<"1">>, <<"1","0">>, <<"a","b","c">>, <<"2">>, <<"7">> >>

MainBuildSet == {BuildPool[i] : i \in 1..MainBuilds}

SortBuildSet == {BuildPool[i] : i \in 1..SortBuilds}

NameBuild == <<"B","u","i","l","d">>

NameTest == <<"T","e","s","t">>

NameDeploy == <<"D","e","p","l","o","y">>

EnvStaging == <<"s","t","a","g","i","n","g">>

UrlApp == <<"h",":","/","/","x">>

UrlPR42 == <<"g","/","p","r","/","4","2">>

UrlU1 == <<"u","/","1">>

UrlU2 == <<"u","/","2">>

RawObject(name, build, gitOwner, gitRepository, pipeline, status, steps) ==
    [metadata |-> [name |-> name],
     spec |-> Some([build |-> build, gitOwner |-> gitOwner,
                    gitRepository |-> gitRepository, pipeline |-> pipeline,
                    status |-> status, steps |-> steps])]

NoSpecObject(name) == [metadata |-> [name |-> name], spec |-> Absent]

StepsBuildTest ==
    Some(<<StageStep(NameBuild, "Succeeded"), StageStep(NameTest, "Running")>>)

StepsBuildDeploy ==
    Some(<<StageStep(NameBuild, "Succeeded"), StageStep(NameDeploy, "Failed")>>)

\* a promote step whose update record has no statuses list
StepsNoStatuses ==
    Some(<<StageStep(NameBuild, "Succeeded"),
           PromoteStep(Promote(EnvStaging, UrlApp, Absent, Update(Absent))),
           StageStep(NameTest, "Running")>>)

\* Raw objects handed to upsertPipeline / deletePipeline directly
Pipelines ==
    {Some(RawObject(A, <<"1">>, A, R, <<>>, "Succeeded", StepsBuildTest)),
     Some(RawObject(A, <<"1">>, A, R, <<>>, "Failed", StepsBuildDeploy)),
     Some(RawObject(A, <<"1">>, A, R, <<>>, "Running", StepsNoStatuses)),
     Some(NoSpecObject(A))}

Folders == {<<>>, A}

RepoNames == {<<>>, R}

BuildNumbers == {<<>>} \cup MainBuildSet


PipelineARM == <<"a","/","r","/","m">>

PipelineBSM == <<"b","/","s","/","m">>

PipelineAR == <<"a","/","r">>

PipelineNoOwner == <<"/","r","/","m">>

\* Objects the watch delivers that the callback accepts
ValidObjects ==
    {RawObject(A, b, A, R, <<>>, "Running", StepsBuildTest) : b \in MainBuildSet}
    \cup {RawObject(A, b, A, R, <<>>, "Failed", StepsNoStatuses) : b \in MainBuildSet}
    \cup {RawObject(A, BuildPool[1], OwnerB, <<>>, PipelineARM, "Succeeded", StepsBuildDeploy),
          RawObject(OwnerB, BuildPool[1], <<>>, <<>>, PipelineBSM, "Aborted",
                    StepsBuildDeploy)}

\* Objects with a missing name, spec, build number, owner or repository
DroppedObjects ==
    {RawObject(<<>>, BuildPool[1], A, R, <<>>, "Running", StepsBuildTest),
     NoSpecObject(A),
     RawObject(A, <<>>, A, R, <<>>, "Running", StepsBuildTest),
     RawObject(A, BuildPool[1], <<>>, <<>>, PipelineAR, "Running", StepsBuildTest),
     RawObject(A, BuildPool[1], A, <<>>, <<>>, "Running", StepsBuildTest),
     RawObject(A, BuildPool[1], A, <<>>, PipelineNoOwner, "Running", StepsBuildTest),
     RawObject(A, BuildPool[1], <<>>, <<>>, <<>>, "Running", StepsBuildTest)}

WatchObjects == ValidObjects \cup DroppedObjects

EventTypes == {"ADDED", "MODIFIED", "DELETED", "ERROR"}

-----------------------------------------------------------------------------
(* State, actions and specifications *)

\* nodes  : PipelineModel.nodes, the owner map
\* last   : the operation that ran last, its arguments and its outcome
\* latest : per key, the object of the most recent accepted ADDED or MODIFIED
\*          event not followed by an accepted DELETED event for that key
\* view   : the result of the last getChildren call
\* effects: what the last operation did besides leaving the tree it left:
\*          seen    the tree a listener that re-queries the children reads at
\*                  each change notification the operation fired, in order
\*          made    the nodes the operation constructed, in order
\*          removed the keys of the Builds the operation took out of the tree
\*          returned the value the operation returned, for the operations
\*                  whose result is not kept in view

NoCall ==
    [op |-> "init", type |-> "", folder |-> <<>>, repoName |-> <<>>,
     buildNumber |-> <<>>, pipeline |-> Absent, threw |-> FALSE, fired |-> 0,
     calls |-> <<>>, again |-> FALSE]

Call(op, type, folder, repoName, buildNumber, pipeline, threw, fired, calls) ==
    [op |-> op, type |-> type, folder |-> folder, repoName |-> repoName,
     buildNumber |-> buildNumber, pipeline |-> pipeline, threw |-> threw,
     fired |-> fired, calls |-> calls,
     again |-> /\ last.op = op /\ last.type = type /\ last.folder = folder
               /\ last.repoName = repoName /\ last.buildNumber = buildNumber
               /\ last.pipeline = pipeline]

NoEffects == [seen |-> <<>>, made |-> <<>>, removed |-> {}, returned |-> Absent]

\* new OwnerNode / new RepoNode / new BuildNode: the nodes an upsert
\* constructs, each when Map.get finds no node for its key
Constructed(model, folder, repoName, buildNumber) ==
    LET i == KeyIndex(OwnerKeys(model), folder)
        j == IF i = 0 THEN 0 ELSE KeyIndex(RepoKeys(model[i]), repoName)
        k == IF j = 0 THEN 0 ELSE KeyIndex(BuildKeys(model[i].nodes[j]), buildNumber)
        owner == addChildUrl(RootResource, folder)
        repo == addChildUrl(owner, repoName)
    IN  IF folder = <<>> THEN <<>>
        ELSE (IF i = 0 THEN <<[title |-> "Organisation", resource |-> owner]>> ELSE <<>>)
             \o (IF repoName = <<>> THEN <<>>
                 ELSE (IF j = 0 THEN <<[title |-> "Repository", resource |-> repo]>>
                       ELSE <<>>)
                      \o (IF buildNumber # <<>> /\ k = 0
                          THEN <<[title |-> "Build",
                                  resource |-> addChildUrl(repo, buildNumber)]>>
                          ELSE <<>>))

\* The keys of all the Builds of a tree
BuildKeySet(model) ==
    UNION {UNION {{[folder |-> model[i].folder, repoName |-> model[i].nodes[j].repoName,
                    buildNumber |-> model[i].nodes[j].nodes[k].buildNumber] :
                   k \in 1..Len(model[i].nodes[j].nodes)} :
                 j \in 1..Len(model[i].nodes)} :
           i \in 1..Len(model)}

\* new Map<string, vscode.Terminal>(): a function from the names that have an
\* entry to the terminal of each, a terminal being its position in the window
NoTerminals == <<>>

\* The terminal operation that ran last, and the terminal it returned or closed
NoTerminalCall == [op |-> "init", name |-> "", terminal |-> 0]

\* fireChangeEvent: the listeners run inside fire(), on the tree as it is then
Notified(model, fired) == [n \in 1..fired |-> model]

Init ==
    /\ nodes = <<>>
    /\ last = NoCall
    /\ latest = {}
    /\ view = <<>>
    /\ effects = NoEffects
    /\ terminals = NoTerminals
    /\ window = <<>>
    /\ shown = NoTerminalCall

\* A call of PipelineModel.upsertPipeline(folder, repoName, buildNumber, pipeline)
UpsertReturns(folder, repoName, buildNumber, pipeline, r) ==
    /\ nodes' = r.nodes
    /\ last' = Call("upsertPipeline", "", folder, repoName, buildNumber,
                    pipeline, r.threw, 0, <<>>)
    /\ effects' = [NoEffects EXCEPT
                       !.made = Constructed(nodes, folder, repoName, buildNumber),
                       !.removed = BuildKeySet(nodes) \ BuildKeySet(r.nodes)]
    /\ UNCHANGED <<latest, view, terminalVars>>

UpsertCall(F, N, B, P) ==
    \E folder \in F, repoName \in N, buildNumber \in B, pipeline \in P :
        UpsertReturns(folder, repoName, buildNumber, pipeline,
                      upsertPipeline(nodes, folder, repoName, buildNumber, pipeline))

\* A call of PipelineModel.deletePipeline(folder, repoName, buildNumber, pipeline)
DeleteCall(F, N, B, P) ==
    \E folder \in F, repoName \in N, buildNumber \in B, pipeline \in P :
        /\ nodes' = deletePipeline(nodes, folder, repoName, buildNumber)
        /\ last' = Call("deletePipeline", "", folder, repoName, buildNumber,
                        pipeline, FALSE, 0, <<>>)
        /\ effects' = [NoEffects EXCEPT
                           !.removed = BuildKeySet(nodes) \ BuildKeySet(nodes')]
        /\ UNCHANGED <<latest, view, terminalVars>>

\* The record of accepted events, kept beside the tree
Record(journal, type, key, obj) ==
    LET others == {e \in journal : e.key # key}
    IN  IF type \in {"ADDED", "MODIFIED"}
        THEN others \cup {[key |-> key, pipeline |-> Some(obj)]}
        ELSE IF type = "DELETED" THEN others
        ELSE journal

\* One watch event delivered to the callback
CallbackReturns(type, obj, r) ==
    /\ nodes' = r.nodes
    /\ last' = Call("watch", type, r.key.folder, r.key.repoName,
                    r.key.buildNumber, Some(obj), r.threw, r.fired, r.calls)
    /\ latest' = IF r.key = NoKey THEN latest
                 ELSE Record(latest, type, r.key, obj)
    /\ effects' = [NoEffects EXCEPT
                       !.seen = Notified(r.nodes, r.fired),
                       !.made = IF r.calls = <<"upsertPipeline">>
                                THEN Constructed(nodes, r.key.folder, r.key.repoName,
                                                 r.key.buildNumber)
                                ELSE <<>>,
                       !.removed = BuildKeySet(nodes) \ BuildKeySet(r.nodes)]
    /\ UNCHANGED <<view, terminalVars>>

WatchEvent(T, O) ==
    \E type \in T, obj \in O :
        CallbackReturns(type, obj, WatchCallback(nodes, type, obj))

\* A call of getChildren on a Repo of the tree
GetRepoChildren ==
    \E i \in 1..Len(nodes) : \E j \in 1..Len(nodes[i].nodes) :
        /\ view' = RepoNode_getChildren(nodes[i].nodes[j])
        /\ last' = Call("RepoNode.getChildren", "", nodes[i].folder,
                        nodes[i].nodes[j].repoName, <<>>, Absent, FALSE, 0, <<>>)
        /\ effects' = NoEffects
        /\ UNCHANGED <<nodes, latest, terminalVars>>

\* A call of getNodeChildren with no element or with an Owner of the tree
GetNodeChildren ==
    \E element \in {Absent} \cup {Some(nodes[i]) : i \in 1..Len(nodes)} :
        /\ last' = Call("getNodeChildren", "",
                        IF IsPresent(element) THEN Val(element).folder ELSE <<>>,
                        <<>>, <<>>, Absent, FALSE, 0, <<>>)
        /\ effects' = [NoEffects EXCEPT
                           !.returned = Some(getNodeChildren(nodes, element))]
        /\ UNCHANGED <<nodes, latest, view, terminalVars>>

\* The resource objects of the nodes of the tree
OwnResources(model) ==
    {Uri(RootResource, RootRef)}
    \cup {Uri(model[i].resource, Ref(model[i].folder, <<>>, <<>>, 0)) : i \in 1..Len(model)}
    \cup UNION {{Uri(model[i].nodes[j].resource,
                     Ref(model[i].folder, model[i].nodes[j].repoName, <<>>, 0)) :
                 j \in 1..Len(model[i].nodes)} : i \in 1..Len(model)}
    \cup UNION {UNION {{Uri(model[i].nodes[j].nodes[k].resource,
                            Ref(model[i].folder, model[i].nodes[j].repoName,
                                model[i].nodes[j].nodes[k].buildNumber, 0)) :
                        k \in 1..Len(model[i].nodes[j].nodes)} :
                      j \in 1..Len(model[i].nodes)} : i \in 1..Len(model)}
    \cup UNION {UNION {UNION {{Uri(model[i].nodes[j].nodes[k].children[n].resource,
                                   Ref(model[i].folder, model[i].nodes[j].repoName,
                                       model[i].nodes[j].nodes[k].buildNumber, n)) :
                               n \in 1..Len(model[i].nodes[j].nodes[k].children)} :
                             k \in 1..Len(model[i].nodes[j].nodes)} :
                      j \in 1..Len(model[i].nodes)} : i \in 1..Len(model)}

\* The Uri objects nodeForUri is called with: an object of the host with the
\* path of a node of the tree or with one of the fixed paths (of an Owner that
\* may be in the tree or pruned, and of no node), or a node's own object
HostPaths == {addChildUrl(RootResource, A), addChildUrl(RootResource, OwnerB)}

RevealUris(model) ==
    {Uri(u.path, HostRef) : u \in OwnResources(model)}
    \cup {Uri(path, HostRef) : path \in HostPaths}
    \cup OwnResources(model)

\* A call of nodeForUri(uri, this.pipelineModel)
NodeForUri ==
    \E uri \in RevealUris(nodes) :
        /\ last' = Call("nodeForUri", "", <<>>, <<>>, <<>>, Absent, FALSE, 0, <<>>)
        /\ effects' = [NoEffects EXCEPT
                           !.returned = Some([uri |-> uri, node |-> nodeForUri(uri, nodes)])]
        /\ UNCHANGED <<nodes, latest, view, terminalVars>>

\* Direct calls of the model's two mutation operations
Next ==
    \/ UpsertCall(Folders, RepoNames, BuildNumbers, Pipelines)
    \/ DeleteCall(Folders, RepoNames, BuildNumbers, {Absent})

Spec == Init /\ [][Next]_vars

\* The tree driven by watch events alone
NextWatch == WatchEvent(EventTypes, WatchObjects)

SpecWatch == Init /\ [][NextWatch]_vars

\* One Repo, its builds upserted and deleted in every order, and its sorted view
NextSort ==
    \/ UpsertCall({A}, {R}, SortBuildSet, {Some(NoSpecObject(A))})
    \/ DeleteCall({A}, {R}, SortBuildSet, {Absent})
    \/ GetRepoChildren

SpecSort == Init /\ [][NextSort]_vars


\* Raw objects that cover the branches of the Stage derivation
UrlNoSlash == <<"p","r","7">>

UrlSlashFirst == <<"/","7">>

EnvProd == <<"p","r","o","d">>

StepsPromoteExample ==
    Some(<<PromoteStep(Promote(EnvStaging, UrlApp, PullRequest(UrlPR42, "Succeeded"),
                               Absent))>>)

StepsUpdateUrls ==
    Some(<<PromoteStep(Promote(EnvProd, <<>>, PullRequest(UrlNoSlash, "Failed"),
                               Update(Some(<<StatusEntry(<<>>), StatusEntry(UrlU1),
                                             StatusEntry(UrlU2)>>))))>>)

StepsAbsentStatus ==
    Some(<<StageStep(NameBuild, "Succeeded"),
           PromoteStep(Promote(EnvStaging, UrlApp, PullRequest(UrlPR42, "Succeeded"),
                               Update(Some(<<StatusEntry(<<>>), Absent>>))))>>)

StepsStageAndPromote ==
    Some(<<Some([stage |-> Some([name |-> NameDeploy, status |-> "Running"]),
                 promote |-> Some(Promote(<<>>, <<>>, PullRequest(UrlSlashFirst, ""),
                                          Absent))])>>)

StepsWithGaps ==
    Some(<<Absent, Some([stage |-> Absent, promote |-> Absent]),
           StageStep(NameTest, "")>>)

StepsUpdateNoUrl ==
    Some(<<PromoteStep(Promote(EnvStaging, UrlApp, Absent,
                               Update(Some(<<StatusEntry(<<>>)>>)))),
           StageStep(NameTest, "Aborted")>>)

\* an absent entry after the entry with the first url
StepsUpdateThenGap ==
    Some(<<PromoteStep(Promote(EnvProd, <<>>, Absent,
                               Update(Some(<<StatusEntry(UrlU2), Absent>>))))>>)

DeriveSteps ==
    {StepsBuildTest, StepsPromoteExample, StepsUpdateUrls, StepsAbsentStatus,
     StepsNoStatuses, StepsStageAndPromote, StepsWithGaps, StepsUpdateNoUrl,
     StepsUpdateThenGap, Some(<<>>), Absent}

DerivePipelines ==
    {Some(RawObject(A, BuildPool[1], A, R, <<>>, "Succeeded", steps)) : steps \in DeriveSteps}
    \cup {Some(NoSpecObject(A))}

\* Two Builds of one Repo, upserted with every kind of step list
DeriveBuildSet == {BuildPool[1], BuildPool[2]}

NextDerive ==
    \/ UpsertCall({A}, {R}, DeriveBuildSet, DerivePipelines)
    \/ DeleteCall({A}, {R}, DeriveBuildSet, {Absent})

SpecDerive == Init /\ [][NextDerive]_vars

\* Names that a sort has to put in order beside "a" and "r": one that "a" is
\* a proper prefix of and an upper-case one among them
OrderKeys == 2

NamePool == << <<"a","b">>, <<"B">>, <<"b">>, <<"1","0">> >>

OrderNames == {NamePool[i] : i \in 1..OrderKeys}

\* Owners upserted in every order, the Repos of one Owner upserted in every
\* order, one Build deleted, and the key-ordered views
NextOrder ==
    \/ UpsertCall(OrderNames, {R}, {BuildPool[1]}, {Some(NoSpecObject(A))})
    \/ UpsertCall({A}, OrderNames \cup {R}, {BuildPool[1]}, {Some(NoSpecObject(A))})
    \/ DeleteCall({A}, {R}, {BuildPool[1]}, {Absent})
    \/ GetNodeChildren

SpecOrder == Init /\ [][NextOrder]_vars

\* One Owner and one Repo, its Builds upserted with stage and promote steps
\* and deleted, the Owner left without Repos and pruned, and nodeForUri
RevealPipelines ==
    {Some(RawObject(A, BuildPool[1], A, R, <<>>, "Succeeded", steps)) :
        steps \in {StepsBuildTest, StepsPromoteExample}}

NextReveal ==
    \/ UpsertCall({A}, {<<>>, R}, DeriveBuildSet, RevealPipelines)
    \/ DeleteCall({A}, {R}, DeriveBuildSet, {Absent})
    \/ NodeForUri

SpecReveal == Init /\ [][NextReveal]_vars

\* Two Owners, two Repos under one of them and two Builds under one Repo,
\* upserted (also with an object on which the setter throws, and with empty
\* repo names and build numbers) and deleted in every order
TreeBuildSet == {<<>>, BuildPool[1], BuildPool[2]}

TreePipelines ==
    {Some(RawObject(A, <<"1">>, A, R, <<>>, "Succeeded", StepsBuildTest)),
     Some(RawObject(A, <<"1">>, A, R, <<>>, "Running", StepsNoStatuses))}

NextTree ==
    \/ UpsertCall({<<>>, A}, {<<>>, R}, TreeBuildSet, TreePipelines)
    \/ UpsertCall({A, OwnerB}, {RepoS}, {BuildPool[1]}, {Some(NoSpecObject(A))})
    \/ DeleteCall({A, OwnerB}, {<<>>, R, RepoS}, TreeBuildSet, {Absent})

SpecTree == Init /\ [][NextTree]_vars

\* A call of PipelineTreeDataProvider.getTreeItem with a Build of the tree or
\* with one of its Stage nodes
GetTreeItem ==
    \E i \in 1..Len(nodes) : \E j \in 1..Len(nodes[i].nodes) :
        \E k \in 1..Len(nodes[i].nodes[j].nodes) :
            \E n \in 0..Len(nodes[i].nodes[j].nodes[k].children) :
                /\ last' = Call("getTreeItem", "", nodes[i].folder,
                                nodes[i].nodes[j].repoName,
                                nodes[i].nodes[j].nodes[k].buildNumber, Absent, FALSE,
                                0, <<>>)
                /\ effects' =
                       [NoEffects EXCEPT
                            !.returned =
                                Some([element |-> Ref(nodes[i].folder,
                                                      nodes[i].nodes[j].repoName,
                                                      nodes[i].nodes[j].nodes[k].buildNumber,
                                                      n),
                                      item |-> IF n = 0
                                               THEN getTreeItem_Build(
                                                        nodes[i].nodes[j].nodes[k])
                                               ELSE getTreeItem_Stage(
                                                        nodes[i].nodes[j].nodes[k]
                                                            .children[n])])]
                /\ UNCHANGED <<nodes, latest, view, terminalVars>>

\* The statuses of the raw objects and of their stage steps: the five with an
\* icon, the one the Stage switch names without an icon, one the switches do
\* not name, and none
ItemStatuses ==
    {"Succeeded", "Failed", "Error", "Running", "Aborted", "NotExecuted", "Pending", ""}

Started == <<"t","1">>

Completed == <<"t","2">>

\* a promote step with an update record and a pull request record without status
StepsUpdateNoStatus ==
    Some(<<PromoteStep(Promote(EnvStaging, UrlApp, PullRequest(UrlPR42, ""),
                               Update(Some(<<StatusEntry(UrlU1)>>))))>>)

\* a raw object and a stage step with both timestamps, and a step without a
\* stage or promote record's status field
TimedObject ==
    [metadata |-> [name |-> A],
     spec |-> Some([build |-> BuildPool[1], gitOwner |-> A, gitRepository |-> R,
                    pipeline |-> <<>>, status |-> "Succeeded",
                    startedTimestamp |-> Started, completedTimestamp |-> Completed,
                    steps |-> Some(<<Some([stage |-> Some([name |-> NameBuild,
                                                           status |-> "Failed",
                                                           startedTimestamp |-> Started,
                                                           completedTimestamp |-> Completed]),
                                           promote |-> Absent]),
                                     Some([stage |-> Some([name |-> NameTest,
                                                           status |-> "Running",
                                                           startedTimestamp |-> Started,
                                                           completedTimestamp |-> <<>>]),
                                           promote |-> Absent])>>)])]

ItemPipelines ==
    {Some(RawObject(A, BuildPool[1], A, R, <<>>, status,
                    Some(<<StageStep(NameBuild, status)>>))) : status \in ItemStatuses}
    \cup {Some(RawObject(A, BuildPool[1], A, R, <<>>, "Succeeded", steps)) :
            steps \in {StepsUpdateUrls, StepsUpdateNoUrl, StepsUpdateNoStatus}}
    \cup {Some(NoSpecObject(A)), Some(TimedObject), Absent}

\* Two Builds of one Repo, upserted with every status, and their tree items
NextItems ==
    \/ UpsertCall({A}, {R}, DeriveBuildSet, ItemPipelines)
    \/ DeleteCall({A}, {R}, DeriveBuildSet, {Absent})
    \/ GetTreeItem

SpecItems == Init /\ [][NextItems]_vars

\* The number of terminals the window opens in a run
MaxTerminals == 4

\* The names runJXAsTerminal is called with: the one of startPipeline and
\* stopPipeline and one of watchBuildLog
TerminalNames == {"Jenkins X", "Jenkins Log: a/r/m #1"}

\* A terminal of the window: own when the cache created it
Terminal(name, own) == [name |-> name, own |-> own, open |-> TRUE]

\* this.terminals.delete(name)
MapDelete(map, name) == [n \in DOMAIN map \ {name} |-> map[n]]

\* this.terminals.set(name, terminal)
MapSet(map, name, terminal) ==
    [n \in DOMAIN map \cup {name} |-> IF n = name THEN terminal ELSE map[n]]

\* TerminalCache.getOrCreate
getOrCreate(cache, host, terminalName) ==
    IF terminalName \in DOMAIN cache
    THEN [terminals |-> cache, window |-> host, terminal |-> cache[terminalName]]
    ELSE [terminals |-> MapSet(cache, terminalName, Len(host) + 1),
          window |-> Append(host, Terminal(terminalName, TRUE)),
          terminal |-> Len(host) + 1]

\* The listener the constructor registers with vscode.window.onDidCloseTerminal
onDidCloseTerminal(cache, terminal) ==
    IF terminal.name \in DOMAIN cache THEN MapDelete(cache, terminal.name) ELSE cache

\* A call of runJXAsTerminal(terminals, args, terminalName): the terminal of
\* getOrCreate is sent the command line and shown
RunJXAsTerminal ==
    \E terminalName \in TerminalNames :
        /\ terminalName \in DOMAIN terminals \/ Len(window) < MaxTerminals
        /\ terminals' = getOrCreate(terminals, window, terminalName).terminals
        /\ window' = getOrCreate(terminals, window, terminalName).window
        /\ shown' = [op |-> "getOrCreate", name |-> terminalName,
                     terminal |-> getOrCreate(terminals, window, terminalName).terminal]
        /\ UNCHANGED <<nodes, last, latest, view, effects>>

\* The user or another extension opens a terminal, under any name
HostCreatesTerminal ==
    \E name \in TerminalNames :
        /\ Len(window) < MaxTerminals
        /\ window' = Append(window, Terminal(name, FALSE))
        /\ shown' = [op |-> "create", name |-> name, terminal |-> Len(window) + 1]
        /\ UNCHANGED <<nodes, last, latest, view, effects, terminals>>

\* An open terminal of the window is closed and the listener is called with it
CloseTerminal ==
    \E t \in 1..Len(window) :
        /\ window[t].open
        /\ window' = [window EXCEPT ![t].open = FALSE]
        /\ terminals' = onDidCloseTerminal(terminals, window[t])
        /\ shown' = [op |-> "close", name |-> window[t].name, terminal |-> t]
        /\ UNCHANGED <<nodes, last, latest, view, effects>>

\* Commands that run jx in a terminal, and terminals opened and closed
NextTerminals ==
    \/ RunJXAsTerminal
    \/ HostCreatesTerminal
    \/ CloseTerminal

SpecTerminals == Init /\ [][NextTerminals]_vars

\* A call of PipelineTreeDataProvider.refresh: this.model.fireChangeEvent(),
\* whose listeners run on the tree as it is then
Refresh ==
    /\ last' = Call("refresh", "", <<>>, <<>>, <<>>, Absent, FALSE, 1, <<>>)
    /\ effects' = [NoEffects EXCEPT !.seen = Notified(nodes, 1)]
    /\ UNCHANGED <<nodes, latest, view, terminalVars>>

\* Watch objects of two Builds of one Repo, one with an update record
\* without statuses
RefreshObjects ==
    {RawObject(A, BuildPool[1], A, R, <<>>, "Succeeded", StepsBuildTest),
     RawObject(A, BuildPool[1], A, R, <<>>, "Running", StepsNoStatuses),
     RawObject(A, BuildPool[2], A, R, <<>>, "Failed", StepsPromoteExample)}

\* Direct calls and watch events on two Builds of one Repo, and refreshes of
\* the view in between
NextRefresh ==
    \/ UpsertCall({A}, {R}, DeriveBuildSet, TreePipelines)
    \/ DeleteCall({A}, {R}, DeriveBuildSet, {Absent})
    \/ WatchEvent(EventTypes, RefreshObjects)
    \/ Refresh

SpecRefresh == Init /\ [][NextRefresh]_vars

-----------------------------------------------------------------------------
(* Views of the tree used to state the properties *)

KeyOf(folder, repoName, buildNumber) ==
    [folder |-> folder, repoName |-> repoName, buildNumber |-> buildNumber]

\* Every Build reachable from the root, with its key
Builds(model) ==
    UNION {UNION {{[key |-> KeyOf(model[i].folder, model[i].nodes[j].repoName,
                                  model[i].nodes[j].nodes[k].buildNumber),
                    node |-> model[i].nodes[j].nodes[k]] :
                   k \in 1..Len(model[i].nodes[j].nodes)} :
                 j \in 1..Len(model[i].nodes)} :
           i \in 1..Len(model)}

HasBuild(model, key) == \E b \in Builds(model) : b.key = key

BuildAt(model, key) == (CHOOSE b \in Builds(model) : b.key = key).node

HasOwner(model, folder) == \E i \in 1..Len(model) : model[i].folder = folder

OwnerAt(model, folder) == model[CHOOSE i \in 1..Len(model) : model[i].folder = folder]

NoDuplicates(keys) == \A i, j \in 1..Len(keys) : keys[i] = keys[j] => i = j

UniqueKeys(model) ==
    /\ NoDuplicates(OwnerKeys(model))
    /\ \A i \in 1..Len(model) :
          /\ NoDuplicates(RepoKeys(model[i]))
          /\ \A j \in 1..Len(model[i].nodes) : NoDuplicates(BuildKeys(model[i].nodes[j]))

LastKey(call) == KeyOf(call.folder, call.repoName, call.buildNumber)

WellFormedKey(call) ==
    call.folder # <<>> /\ call.repoName # <<>> /\ call.buildNumber # <<>>

IsPrefix(p, t) == Len(p) <= Len(t) /\ SubSeq(t, 1, Len(p)) = p

\* The Stage nodes the specification derives from a step list: per step the
\* stage node, then the promote node, the pull request node, the update node
\* and the app node, each only when its record or URL is present.  A pull
\* request node's name is fixed up to its "#<number>" suffix.
Expect(name, contextValue, exact) ==
    [name |-> name, contextValue |-> contextValue, exact |-> exact]

ExpectedPromote(promote) ==
    <<Expect(PromoteTo \o stringCapitalise(promote.environment),
             IF promote.applicationURL # <<>> THEN AppContext ELSE StageContext, TRUE)>>
    \o (IF IsPresent(promote.pullRequest)
        THEN <<Expect(PromoteTo \o stringCapitalise(promote.environment)
                        \o PullRequestSuffix, PullRequestContext, FALSE)>>
        ELSE <<>>)
    \o (IF IsPresent(promote.update)
        THEN <<Expect(PromoteTo \o stringCapitalise(promote.environment)
                        \o UpdateSuffix, UpdateContext, TRUE)>>
        ELSE <<>>)
    \o (IF promote.applicationURL # <<>>
        THEN <<Expect(AppPromotedTo \o stringCapitalise(promote.environment),
                      AppContext, TRUE)>>
        ELSE <<>>)

ExpectedStep(step) ==
    IF ~IsPresent(step) THEN <<>>
    ELSE (IF IsPresent(Val(step).stage)
          THEN <<Expect(Val(Val(step).stage).name, StageContext, TRUE)>>
          ELSE <<>>)
         \o (IF IsPresent(Val(step).promote)
             THEN ExpectedPromote(Val(Val(step).promote))
             ELSE <<>>)

RECURSIVE ExpectedStages(_)
ExpectedStages(steps) ==
    IF steps = <<>> THEN <<>>
    ELSE ExpectedStep(Head(steps)) \o ExpectedStages(Tail(steps))

ExpectedOf(pipeline) ==
    IF IsPresent(pipeline) /\ IsPresent(Val(pipeline).spec)
       /\ IsPresent(Val(Val(pipeline).spec).steps)
    THEN ExpectedStages(Val(Val(Val(pipeline).spec).steps))
    ELSE <<>>

MatchesExpected(children, expected) ==
    /\ Len(children) = Len(expected)
    /\ \A i \in 1..Len(expected) :
          /\ children[i].contextValue = expected[i].contextValue
          /\ IF expected[i].exact THEN children[i].name = expected[i].name
             ELSE IsPrefix(expected[i].name, children[i].name)

StageNames(children) == [i \in 1..Len(children) |-> children[i].name]

-----------------------------------------------------------------------------
(* Properties *)

\* C1: under watch events alone, the tree holds a Build for a key exactly when
\* the most recent accepted event for that key was ADDED or MODIFIED, the
\* Build stores the object of that event, and no key has two nodes.
C1_LastWriteWins ==
    /\ {[key |-> b.key, pipeline |-> b.node.pipeline] : b \in Builds(nodes)} = latest
    /\ UniqueKeys(nodes)

\* C1 witness: a DELETED event removed one Build while another Build, stored
\* by an earlier event, is still in the tree with its Stage list.
C1_Witness ==
    /\ last.op = "watch" /\ last.type = "DELETED" /\ last.calls = <<"deletePipeline">>
    /\ ~HasBuild(nodes, LastKey(last))
    /\ \E b \in Builds(nodes) : b.node.children # <<>> /\ b.node.pipeline # last.pipeline

\* C2: a call of upsertPipeline that repeats the previous call's arguments
\* leaves the whole tree (Owners, Repos, Builds, Stage lists) as it was.
C2_UpsertIdempotent ==
    [][(last'.op = "upsertPipeline" /\ last'.again) => nodes' = nodes]_vars

\* C2 witness: the second of two equal upserts has run on a Build with Stages.
C2_Witness ==
    /\ last.op = "upsertPipeline" /\ last.again /\ WellFormedKey(last)
    /\ HasBuild(nodes, LastKey(last))
    /\ Len(BuildAt(nodes, LastKey(last)).children) >= 2

\* C3: after an upsert of a Build that is already in the tree, its children
\* are exactly the Stage nodes of the new object's step list, in order.
C3_FullReplacement ==
    [][(/\ last'.op = "upsertPipeline" /\ WellFormedKey(last')
        /\ HasBuild(nodes, LastKey(last')))
       => MatchesExpected(BuildAt(nodes', LastKey(last')).children,
                          ExpectedOf(last'.pipeline))]_vars

\* C4: deleting the only Build of the only Repo of an Owner removes the Owner.
C4_OwnerPruned ==
    [][(/\ last'.op = "deletePipeline" /\ WellFormedKey(last')
        /\ HasOwner(nodes, last'.folder)
        /\ Len(OwnerAt(nodes, last'.folder).nodes) = 1
        /\ OwnerAt(nodes, last'.folder).nodes[1].repoName = last'.repoName
        /\ BuildKeys(OwnerAt(nodes, last'.folder).nodes[1]) = <<last'.buildNumber>>)
       => ~HasOwner(nodes', last'.folder)]_vars

\* C5: upsertPipeline with an empty owner, repo or build number changes nothing.
C5_UpsertMissingKeyNoOp ==
    [][(last'.op = "upsertPipeline" /\ ~WellFormedKey(last')) => nodes' = nodes]_vars

\* C6: deletePipeline for a key whose Build is not in the tree changes nothing.
C6_DeleteMissingKeyNoOp ==
    [][(last'.op = "deletePipeline" /\ ~HasBuild(nodes, LastKey(last')))
       => nodes' = nodes]_vars

\* C7: with a non-empty owner, repo and build number, upsertPipeline and
\* deletePipeline never throw, whatever optional fields the object lacks.
C7_Total ==
    (last.op \in {"upsertPipeline", "deletePipeline"} /\ WellFormedKey(last))
        => ~last.threw

\* C8: RepoNode.getChildren returns the Builds with a numeric number in
\* descending order, followed by the Builds with a non-numeric number.
C8_BuildOrder ==
    last.op = "RepoNode.getChildren" =>
        \A i, j \in 1..Len(view) :
            i < j =>
                \/ ~IsPresent(ToNumber(view[j].buildNumber))
                \/ /\ IsPresent(ToNumber(view[i].buildNumber))
                   /\ Val(ToNumber(view[i].buildNumber)) > Val(ToNumber(view[j].buildNumber))

\* C9: every Build's children are, step by step, the stage node, the promote
\* node, the pull request node, the update node and the app node, each when
\* its record or URL is present; the staging example yields its three names
\* with the first and last tagged app-context.
C9_StageOrder ==
    \A b \in Builds(nodes) :
        /\ MatchesExpected(b.node.children, ExpectedOf(b.node.pipeline))
        /\ (IsPresent(Val(b.node.pipeline).spec)
            /\ Val(Val(b.node.pipeline).spec).steps = StepsPromoteExample)
           => /\ StageNames(b.node.children) =
                     << PromoteTo \o <<"S","t","a","g","i","n","g">>,
                        PromoteTo \o <<"S","t","a","g","i","n","g">> \o PullRequestSuffix
                            \o <<" ","#","4","2">>,
                        AppPromotedTo \o <<"S","t","a","g","i","n","g">> >>
              /\ b.node.children[1].contextValue = AppContext
              /\ b.node.children[3].contextValue = AppContext

\* The n-th slash-delimited segment of a pipeline name, empty when there is none
Segment(text, n) ==
    IF n <= Len(split(text, Slash)) THEN split(text, Slash)[n] ELSE <<>>

\* An object with no build number, or with neither an explicit owner/repo
\* pair nor a pipeline name whose first two segments are non-empty
Malformed(obj) ==
    \/ ~IsPresent(obj.spec)
    \/ Val(obj.spec).build = <<>>
    \/ /\ (Val(obj.spec).gitOwner = <<>> \/ Val(obj.spec).gitRepository = <<>>)
       /\ (Segment(Val(obj.spec).pipeline, 1) = <<>>
           \/ Segment(Val(obj.spec).pipeline, 2) = <<>>)

\* C10: a watch event with a malformed object calls neither upsertPipeline
\* nor deletePipeline, leaves the tree unchanged, fires no change
\* notification and lets no exception out of the callback.
C10_MalformedDropped ==
    [][(last'.op = "watch" /\ Malformed(Val(last'.pipeline)))
       => /\ nodes' = nodes
          /\ last'.calls = <<>>
          /\ last'.fired = 0
          /\ ~last'.threw]_vars

\* C10 witness: a malformed ADDED event has been delivered to a non-empty tree.
C10_Witness ==
    /\ last.op = "watch" /\ last.type = "ADDED"
    /\ Malformed(Val(last.pipeline))
    /\ Val(last.pipeline).metadata.name # <<>>
    /\ Builds(nodes) # {}

\* C11: every watch event of type ADDED, MODIFIED or DELETED that the callback
\* accepts (it reaches upsertPipeline or deletePipeline) fires exactly one
\* change notification, after the mutation: the listener that re-queries the
\* children then reads the tree as the event left it.
C11_NotifiedAfterMutation ==
    (/\ last.op = "watch"
     /\ last.type \in {"ADDED", "MODIFIED", "DELETED"}
     /\ last.calls # <<>>)
        => /\ last.fired = 1
           /\ effects.seen = <<nodes>>

\* x comes before y in the lexicographic order of the code units
LexBefore(x, y) ==
    \/ Len(x) < Len(y) /\ SubSeq(y, 1, Len(x)) = x
    \/ \E n \in 1..Len(x) :
          /\ n <= Len(y)
          /\ SubSeq(x, 1, n - 1) = SubSeq(y, 1, n - 1)
          /\ x[n] # y[n]
          /\ \E c, d \in 1..Len(CodeUnits) :
                CodeUnits[c] = x[n] /\ CodeUnits[d] = y[n] /\ c < d

\* The key of an Owner or a Repo
NodeKey(node) ==
    IF "folder" \in DOMAIN node THEN node.folder ELSE node.repoName

\* The children of the element a getNodeChildren call was made on
ChildrenOf(model, call) ==
    IF call.folder = <<>> THEN model ELSE OwnerAt(model, call.folder).nodes

\* C17: getNodeChildren with no node returns every Owner of the tree once, in
\* ascending lexicographic order of owner name, and with an Owner it returns
\* every Repo of the Owner once, in ascending lexicographic order of repo
\* name, whatever the order in which they were first upserted.
C17_KeyOrder ==
    last.op = "getNodeChildren" =>
        /\ \A n \in 1..Len(ChildrenOf(nodes, last)) :
              Cardinality({m \in 1..Len(Val(effects.returned)) :
                              Val(effects.returned)[m] = ChildrenOf(nodes, last)[n]}) = 1
        /\ Len(Val(effects.returned)) = Len(ChildrenOf(nodes, last))
        /\ \A m, n \in 1..Len(Val(effects.returned)) :
              m < n => LexBefore(NodeKey(Val(effects.returned)[m]),
                                 NodeKey(Val(effects.returned)[n]))

\* C17 witness: three Owners, first upserted in an order that is not their
\* key order, have been returned with the upper-case name first; one of them
\* holds three Repos that were not upserted in key order either.
C17_Witness ==
    /\ last.op = "getNodeChildren" /\ last.folder = <<>>
    /\ Len(nodes) = 3
    /\ OwnerKeys(nodes) = << <<"a","b">>, <<"a">>, <<"B">> >>
    /\ [n \in 1..3 |-> Val(effects.returned)[n].folder] = << <<"B">>, <<"a">>, <<"a","b">> >>
    /\ RepoKeys(OwnerAt(nodes, A)) = << <<"r">>, <<"a","b">>, <<"B">> >>

RepoAt(owner, repoName) ==
    owner.nodes[CHOOSE j \in 1..Len(owner.nodes) : owner.nodes[j].repoName = repoName]

HasRepo(model, folder, repoName) ==
    /\ HasOwner(model, folder)
    /\ \E j \in 1..Len(OwnerAt(model, folder).nodes) :
          OwnerAt(model, folder).nodes[j].repoName = repoName

\* Every Owner, Repo and Build carries its parent's resource, "/" and its key
Hierarchical(model) ==
    \A i \in 1..Len(model) :
        /\ model[i].resource = RootResource \o <<"/">> \o model[i].folder
        /\ \A j \in 1..Len(model[i].nodes) :
              /\ model[i].nodes[j].resource =
                     model[i].resource \o <<"/">> \o model[i].nodes[j].repoName
              /\ \A k \in 1..Len(model[i].nodes[j].nodes) :
                    model[i].nodes[j].nodes[k].resource =
                        model[i].nodes[j].resource \o <<"/">>
                            \o model[i].nodes[j].nodes[k].buildNumber

\* The identity resources of the Owner, the Repo and the Build of a key
Identity(model, key) ==
    <<OwnerAt(model, key.folder).resource,
      RepoAt(OwnerAt(model, key.folder), key.repoName).resource,
      BuildAt(model, key).resource>>

\* C12: the identity resource of every Owner, Repo and Build is its parent's
\* with "/" and the node's key appended, and whatever is called other than a
\* delete of its key, a Build of the tree stays in the tree with the same
\* Owner, Repo and Build node: none of them is constructed anew and their
\* identity resources stay as they were.
C12_IdentityStable ==
    [][/\ Hierarchical(nodes')
       /\ \A b \in Builds(nodes) :
             \/ last'.op = "deletePipeline" /\ LastKey(last') = b.key
             \/ /\ HasBuild(nodes', b.key)
                /\ Identity(nodes', b.key) = Identity(nodes, b.key)
                /\ \A n \in 1..Len(effects'.made) :
                      \A m \in 1..3 :
                          effects'.made[n].resource # Identity(nodes, b.key)[m]]_vars

\* C12 witness: a Build is upserted again, with another object than by the
\* call before, and no node was constructed; another Owner is in the tree.
C12_Witness ==
    /\ last.op = "upsertPipeline" /\ WellFormedKey(last) /\ ~last.again
    /\ HasBuild(nodes, LastKey(last))
    /\ effects.made = <<>>
    /\ Len(BuildAt(nodes, LastKey(last)).children) >= 2
    /\ Len(nodes) = 2

\* C14: no call removes a Repo from an Owner that stays in the tree, and a
\* delete that removes the last Build of a Repo leaves the Owner and the
\* Repo in the tree, the Repo with no children.
C14_RepoKept ==
    [][/\ \A i \in 1..Len(nodes) :
             HasOwner(nodes', nodes[i].folder) =>
                 \A j \in 1..Len(nodes[i].nodes) :
                     HasRepo(nodes', nodes[i].folder, nodes[i].nodes[j].repoName)
       /\ \A key \in effects'.removed :
             (/\ last'.op = "deletePipeline"
              /\ Len(RepoAt(OwnerAt(nodes, key.folder), key.repoName).nodes) = 1)
             => /\ HasRepo(nodes', key.folder, key.repoName)
                /\ RepoAt(OwnerAt(nodes', key.folder), key.repoName).nodes = <<>>]_vars

\* C14 witness: a delete has removed the only Build of a Repo, which is still
\* in the tree beside another Repo of its Owner.
C14_Witness ==
    /\ last.op = "deletePipeline"
    /\ effects.removed = {LastKey(last)}
    /\ HasRepo(nodes, last.folder, last.repoName)
    /\ RepoAt(OwnerAt(nodes, last.folder), last.repoName).nodes = <<>>
    /\ Len(OwnerAt(nodes, last.folder).nodes) = 2

\* C15: an upsertPipeline or deletePipeline for a key leaves every Build of
\* another key in the tree with its raw object and Stage list as they were,
\* and a Build leaves the tree only by a deletePipeline for its own key.
C15_Frame ==
    [][last'.op \in {"upsertPipeline", "deletePipeline"} =>
          \A b \in Builds(nodes) :
              /\ b.key # LastKey(last') =>
                     /\ HasBuild(nodes', b.key)
                     /\ BuildAt(nodes', b.key) = b.node
              /\ ~HasBuild(nodes', b.key) =>
                     /\ last'.op = "deletePipeline"
                     /\ LastKey(last') = b.key]_vars

\* C15 witness: a delete has removed the first Build upserted under a Repo
\* that holds a later Build with Stages, and another Owner holds a Build.
C15_Witness ==
    /\ last.op = "deletePipeline"
    /\ effects.removed = {LastKey(last)}
    /\ \E b \in Builds(nodes) :
          /\ b.key.folder = last.folder /\ b.key.repoName = last.repoName
          /\ b.node.children # <<>>
    /\ \E b \in Builds(nodes) : b.key.folder # last.folder

RECURSIVE Concat(_)
Concat(seqs) == IF seqs = <<>> THEN <<>> ELSE Head(seqs) \o Concat(Tail(seqs))

\* The nodes of the tree in depth-first order, each parent before its
\* children and the children in the order getChildren returns them
BuildPreorder(build, ref) ==
    <<Found(ref, build.resource)>>
    \o [n \in 1..Len(build.children) |->
           Found([ref EXCEPT !.stage = n], build.children[n].resource)]

RepoPreorder(repo, ref) ==
    <<Found(ref, repo.resource)>>
    \o Concat([n \in 1..Len(repo.nodes) |->
                  BuildPreorder(RepoNode_getChildren(repo)[n],
                                [ref EXCEPT !.buildNumber =
                                    RepoNode_getChildren(repo)[n].buildNumber])])

OwnerPreorder(owner, ref) ==
    <<Found(ref, owner.resource)>>
    \o Concat([n \in 1..Len(owner.nodes) |->
                  RepoPreorder(OwnerNode_getChildren(owner)[n],
                               [ref EXCEPT !.repoName =
                                   OwnerNode_getChildren(owner)[n].repoName])])

Preorder(model) ==
    <<Found(RootRef, RootResource)>>
    \o Concat([n \in 1..Len(model) |->
                  OwnerPreorder(PipelineModel_getChildren(model)[n],
                                Ref(PipelineModel_getChildren(model)[n].folder,
                                    <<>>, <<>>, 0))])

\* C13: for a Uri whose path equals the identity resource of a node of the
\* tree, whichever object it is, nodeForUri returns the first such node in
\* depth-first order from the root; for a Uri whose path is the resource of
\* no node it returns none.
C13_ResolveByIdentity ==
    last.op = "nodeForUri" =>
        IF \E n \in 1..Len(Preorder(nodes)) :
               Preorder(nodes)[n].resource = Val(effects.returned).uri.path
        THEN Val(effects.returned).node =
                 Some(Preorder(nodes)[
                          CHOOSE n \in 1..Len(Preorder(nodes)) :
                              /\ Preorder(nodes)[n].resource = Val(effects.returned).uri.path
                              /\ \A m \in 1..(n - 1) :
                                    Preorder(nodes)[m].resource
                                        # Val(effects.returned).uri.path])
        ELSE Val(effects.returned).node = Absent

\* An object that the callback does not drop for its name, spec or build
\* number, without an explicit owner/repo pair and with a pipeline name whose
\* first two segments are non-empty
NamedByPipeline(obj) ==
    /\ obj.metadata.name # <<>>
    /\ IsPresent(obj.spec)
    /\ Val(obj.spec).build # <<>>
    /\ (Val(obj.spec).gitOwner = <<>> \/ Val(obj.spec).gitRepository = <<>>)
    /\ Segment(Val(obj.spec).pipeline, 1) # <<>>
    /\ Segment(Val(obj.spec).pipeline, 2) # <<>>

\* C16: for a watch event whose object has no explicit owner/repo pair and a
\* pipeline name with two non-empty leading segments, the key the callback
\* uses is made of those two segments (and an ADDED or MODIFIED event puts
\* the Build under them).
C16_KeyFromPipelineName ==
    (last.op = "watch" /\ NamedByPipeline(Val(last.pipeline)))
        => /\ last.folder = Segment(Val(Val(last.pipeline).spec).pipeline, 1)
           /\ last.repoName = Segment(Val(Val(last.pipeline).spec).pipeline, 2)
           /\ last.type \in {"ADDED", "MODIFIED"} =>
                  HasBuild(nodes, KeyOf(Segment(Val(Val(last.pipeline).spec).pipeline, 1),
                                        Segment(Val(Val(last.pipeline).spec).pipeline, 2),
                                        Val(Val(last.pipeline).spec).build))

\* The identity resources of all the nodes of a tree, in depth-first order
AllResources(model) == [n \in 1..Len(Preorder(model)) |-> Preorder(model)[n].resource]

\* C18: no two nodes of the tree (Owner, Repo, Build or Stage) have equal
\* identity resources; the Stage nodes of one promote step among them.
C18_ResourcesUnique == NoDuplicates(AllResources(nodes))

\* The text after the last slash of a URL
LastSegment(url) == split(url, Slash)[Len(split(url, Slash))]

\* The Stage node of a promote record itself
IsPromoteNode(stage) ==
    /\ IsPresent(stage.step)
    /\ "environment" \in DOMAIN Val(stage.step)
    /\ IsPrefix(PromoteTo, stage.name)

\* The name the specification gives the pull request node of a promote node
PullRequestName(promoteName, url) ==
    promoteName \o PullRequestSuffix
        \o (IF url # <<>> /\ \E k \in 1..Len(url) : url[k] = Slash
            THEN HashPrefix \o LastSegment(url)
            ELSE <<>>)

\* C19: the node that follows the node of a promote record with a pull
\* request record is the pull request node: its name is the promote node's
\* name, " Pull Request" and, when the URL is non-empty and holds a slash at
\* any position, " #" and the text after the last slash; it carries the
\* pull request URL and the pull-request context tag.
C19_PullRequestName ==
    \A b \in Builds(nodes) :
        \A n \in 1..Len(b.node.children) :
            (/\ IsPromoteNode(b.node.children[n])
             /\ IsPresent(Val(b.node.children[n].step).pullRequest))
            => /\ n < Len(b.node.children)
               /\ b.node.children[n + 1].contextValue = PullRequestContext
               /\ b.node.children[n + 1].url =
                      Val(Val(b.node.children[n].step).pullRequest).pullRequestURL
               /\ b.node.children[n + 1].name =
                      PullRequestName(b.node.children[n].name,
                                      Val(Val(b.node.children[n].step).pullRequest)
                                          .pullRequestURL)

\* Entry k of a status list holds a non-empty url
HasUrl(statuses, k) == IsPresent(statuses[k]) /\ Val(statuses[k]).url # <<>>

\* The url of the first entry, in list order, whose url is non-empty
FirstNonEmptyUrl(statuses) ==
    IF \E k \in 1..Len(statuses) : HasUrl(statuses, k)
    THEN Val(statuses[CHOOSE k \in 1..Len(statuses) :
                          /\ HasUrl(statuses, k)
                          /\ \A j \in 1..(k - 1) : ~HasUrl(statuses, j)]).url
    ELSE <<>>

\* The entries of a status list up to its first non-empty url are all there
Scannable(statuses) ==
    \A k \in 1..Len(statuses) :
        IsPresent(statuses[k]) \/ \E j \in 1..(k - 1) : HasUrl(statuses, j)

\* Where the update node of the promote node at position n stands
UpdatePosition(children, n) ==
    IF IsPresent(Val(children[n].step).pullRequest) THEN n + 2 ELSE n + 1

\* C20: the update node of a promote record carries the url of the first
\* entry of update.statuses, in list order, whose url is non-empty, whatever
\* the entries after it hold, and no URL when no entry has one; it is there
\* whenever the list can be scanned up to that entry.
C20_UpdateUrl ==
    \A b \in Builds(nodes) :
        \A n \in 1..Len(b.node.children) :
            (/\ IsPromoteNode(b.node.children[n])
             /\ IsPresent(Val(b.node.children[n].step).update)
             /\ IsPresent(Val(Val(b.node.children[n].step).update).statuses))
            => /\ Scannable(Val(Val(Val(b.node.children[n].step).update).statuses))
                      => UpdatePosition(b.node.children, n) <= Len(b.node.children)
               /\ UpdatePosition(b.node.children, n) <= Len(b.node.children)
                      => /\ b.node.children[UpdatePosition(b.node.children, n)].contextValue
                                = UpdateContext
                         /\ b.node.children[UpdatePosition(b.node.children, n)].url =
                                FirstNonEmptyUrl(
                                    Val(Val(Val(b.node.children[n].step).update).statuses))

\* C20 witness: an update node carries the url of the second of three
\* entries, the first being empty and the third another url.
C20_Witness ==
    /\ last.op = "upsertPipeline"
    /\ HasBuild(nodes, LastKey(last))
    /\ pipelineSpec(BuildAt(nodes, LastKey(last)).pipeline).steps = StepsUpdateUrls
    /\ \E n \in 1..Len(BuildAt(nodes, LastKey(last)).children) :
          /\ BuildAt(nodes, LastKey(last)).children[n].contextValue = UpdateContext
          /\ BuildAt(nodes, LastKey(last)).children[n].url = UrlU1

\* The promote node that the Stage node at position n was derived with: the
\* last promote node before it
PromoteBefore(children, n) ==
    children[CHOOSE m \in 1..(n - 1) :
                 /\ IsPromoteNode(children[m])
                 /\ \A q \in (m + 1)..(n - 1) : ~IsPromoteNode(children[q])]

\* The status the specification gives a record that may be absent
StatusOf(record) ==
    IF IsPresent(record) /\ Val(record).status # "" THEN Val(record).status ELSE "Unknown"

\* The icon the specification gives a status
IconOf(status) ==
    IF status = "Succeeded" THEN Some("images/atomist_build_passed.png")
    ELSE IF status \in {"Failed", "Error"} THEN Some("images/atomist_build_failed.png")
    ELSE IF status = "Running" THEN Some("images/spinner.gif")
    ELSE IF status = "Aborted" THEN Some("images/circle-64.png")
    ELSE Absent

\* The Builds of a tree with the key of the element of a returned tree item
ElementBuilds(model, element) ==
    {b \in Builds(model) :
         b.key = KeyOf(element.folder, element.repoName, element.buildNumber)}

\* C21: the update node of a promote record carries the promote's pull
\* request record as its step payload, and the tree item of the update node
\* shows the status of the pull request record, its icon and its tooltip:
\* "Unknown" and no icon when the promote has no pull request record or the
\* record has no status, whatever the update record holds.
C21_UpdatePayload ==
    /\ \A b \in Builds(nodes) :
           \A n \in 1..Len(b.node.children) :
               b.node.children[n].contextValue = UpdateContext
               => b.node.children[n].step =
                      Val(PromoteBefore(b.node.children, n).step).pullRequest
    /\ (IsPresent(effects.returned) /\ last.op = "getTreeItem")
       => \A b \in ElementBuilds(nodes, Val(effects.returned).element) :
              LET n == Val(effects.returned).element.stage
                  item == Val(effects.returned).item
              IN  (n > 0 /\ b.node.children[n].contextValue = UpdateContext)
                  => LET pr == Val(PromoteBefore(b.node.children, n).step).pullRequest
                     IN  /\ item.tooltip.status = StatusOf(pr)
                         /\ item.tooltip.text = b.node.children[n].name \o <<":", " ">>
                         /\ item.iconPath = IconOf(StatusOf(pr))
                         /\ item.contextValue = UpdateContext

\* C21 witness: getTreeItem has returned the item of an update node whose
\* promote record has a pull request record of status Failed and an update
\* record of status Running: the item shows Failed and the fail icon.
C21_Witness ==
    /\ IsPresent(effects.returned) /\ last.op = "getTreeItem"
    /\ \E b \in ElementBuilds(nodes, Val(effects.returned).element) :
           LET n == Val(effects.returned).element.stage
           IN  /\ n > 0
               /\ b.node.children[n].contextValue = UpdateContext
               /\ Val(Val(PromoteBefore(b.node.children, n).step).update).status = "Running"
               /\ Val(Val(PromoteBefore(b.node.children, n).step).pullRequest).status
                      = "Failed"
               /\ Val(effects.returned).item.tooltip.status = "Failed"
               /\ Val(effects.returned).item.iconPath
                      = Some("images/atomist_build_failed.png")

\* The spec record of a raw object that may be absent
SpecOf(pipeline) == IF IsPresent(pipeline) THEN Val(pipeline).spec ELSE Absent

\* C22: the tree item of a Build shows the status of its raw object's spec
\* and the tree item of a Stage the status of its step payload, "Unknown"
\* when the object, the spec, the payload or the status is absent or empty;
\* the icon of either is the pass icon for Succeeded, the fail icon for
\* Failed and Error, the spinner for Running, the aborted icon for Aborted
\* and none for any other status.
C22_StatusAndIcon ==
    (IsPresent(effects.returned) /\ last.op = "getTreeItem")
    => \A b \in ElementBuilds(nodes, Val(effects.returned).element) :
           LET n == Val(effects.returned).element.stage
               item == Val(effects.returned).item
               status == IF n = 0 THEN StatusOf(SpecOf(b.node.pipeline))
                         ELSE StatusOf(b.node.children[n].step)
           IN  /\ item.tooltip.status = status
               /\ item.iconPath = IconOf(status)
               /\ status = "Unknown"
                      <=> IF n = 0
                          THEN \/ ~IsPresent(b.node.pipeline)
                               \/ ~IsPresent(Val(b.node.pipeline).spec)
                               \/ Val(Val(b.node.pipeline).spec).status = ""
                          ELSE \/ ~IsPresent(b.node.children[n].step)
                               \/ Val(b.node.children[n].step).status = ""

\* C22 witness: getTreeItem has returned the item of a Build whose raw object
\* has the status Error, with the fail icon, while the Build's only Stage
\* has the same status and the other Build of the Repo has no raw object.
C22_Witness ==
    /\ IsPresent(effects.returned) /\ last.op = "getTreeItem"
    /\ Val(effects.returned).element.stage = 0
    /\ Val(effects.returned).item.tooltip.status = "Error"
    /\ Val(effects.returned).item.iconPath = Some("images/atomist_build_failed.png")
    /\ \E b \in ElementBuilds(nodes, Val(effects.returned).element) :
           /\ Val(Val(b.node.pipeline).spec).status = "Error"
           /\ Len(b.node.children) = 1
           /\ Val(b.node.children[1].step).status = "Error"
    /\ \E b \in Builds(nodes) : ~IsPresent(b.node.pipeline)

\* Every Build of a tree has the Stage list of its stored raw object
Consistent(model) ==
    \A b \in Builds(model) :
        MatchesExpected(b.node.children, ExpectedOf(b.node.pipeline))

\* C23: after every call of upsertPipeline or deletePipeline, failing calls
\* included, and in the tree every change notification or refresh shows to
\* its listeners, each Build's Stage list is the derivation of the raw
\* object the Build stores.
C23_StageListConsistent ==
    /\ Consistent(nodes)
    /\ \A t \in 1..Len(effects.seen) : Consistent(effects.seen[t])

\* The open terminals of the window that the cache created under a name
OpenOwn(host, name) ==
    {t \in 1..Len(host) : host[t].own /\ host[t].open /\ host[t].name = name}

\* C24: however calls of getOrCreate and closings of terminals interleave,
\* closings of same-named terminals of others included, the cache never has
\* two open terminals of its own with one name, the terminal getOrCreate
\* returns is open, and while the terminal it created for a name is open it
\* has the entry of that name.
C24_TerminalCache ==
    /\ \A name \in TerminalNames : Cardinality(OpenOwn(window, name)) <= 1
    /\ shown.op = "getOrCreate" => window[shown.terminal].open
    /\ \A name \in TerminalNames :
           \A t \in OpenOwn(window, name) :
               name \in DOMAIN terminals /\ terminals[name] = t
====
